---- MODULE Spec2Model ----
(***************************************************************************)
(* Model of emmyzkp/crypto: the q-one-way (Cramer-Damgard) commitment      *)
(* scheme of qoneway/commitment.go and the equality proof of two           *)
(* Damgard-Fujisaki commitments (package df, EqualityProver and            *)
(* EqualityVerifier).                                                      *)
(*                                                                         *)
(* A *big.Int pointer is modelled as an option: Nil (the nil pointer) or   *)
(* <<v>> (a pointer to the integer v).                                     *)
(***************************************************************************)
EXTENDS Integers, Sequences, FiniteSets, TLC

VARIABLES
    setup,      \* *RSABased shared by Receiver and Committer: [N, E, Q]
    receiver,   \* qoneway.Receiver: [Y, x, commitment]
    committer,  \* qoneway.Committer: [Y, committedValue, r]
    sent,       \* the last commitment GetCommitMsg returned, with its value: Nil or <<a, c>>
    prover,     \* df.EqualityProver: [committer1, committer2, challengeSpaceSize, r1, r21, r22]
    verifier,   \* df.EqualityVerifier: [receiver1, receiver2, challengeSpaceSize,
                \*                       challenge, proofRandomData1, proofRandomData2]
    tmsg,       \* the last (t1, t2) GetProofRandomData returned: Nil or <<t1, t2>>
    smsg,       \* the last response GetProofData returned from the prover's present
                \* randomness, with its challenge: Nil or <<e, s1, s21, s22>>
    chBy,       \* the call that installed the verifier's challenge: "none",
                \* "GetChallenge" or "SetChallenge"
    ret         \* the last call: [op, args, out, err], err an error returned or a panic

\* the commitment protocol's state and the equality proof's
qvars == <<setup, receiver, committer, sent>>

eqvars == <<prover, verifier, tmsg, smsg, chBy>>

vars == <<setup, receiver, committer, sent, prover, verifier, tmsg, smsg, chBy, ret>>

Nil == <<>>

Some(v) == <<v>>

Val(p) == p[1]

(***************************************************************************)
(* Bounds of the model.                                                    *)
(***************************************************************************)
\* the values handed to GetCommitMsg and CheckDecommitment are the low values
\* 0 .. MaxVal, the top value Q - 1 and the values up to Slack outside [0, Q)
MaxVal == 3

Slack == 1

\* the random integers of the equality proof (blinding factors and masks drawn
\* from [0, b)) are the low values 0 .. MaxSample - 1 and the top value b - 1
MaxSample == 1

(***************************************************************************)
(* rsa.Group: Z_N^*, the integers below N coprime with N.                  *)
(***************************************************************************)
RECURSIVE GCD(_, _)
GCD(a, b) == IF b = 0 THEN a ELSE GCD(b, a % b)

IsElementInGroup(N, x) == x < N /\ x >= 0 /\ GCD(x, N) = 1

\* the values GetRandomElement can return
GroupElements(N) == {x \in 0 .. N - 1 : IsElementInGroup(N, x)}

Mul(N, x, y) == (x * y) % N

Inv(N, x) == CHOOSE y \in 0 .. N - 1 : (x * y) % N = 1 % N

\* square and multiply, e >= 0
RECURSIVE ModExp(_, _, _)
ModExp(N, x, e) ==
    IF e = 0 THEN 1 % N
    ELSE IF e % 2 = 0 THEN ModExp(N, (x * x) % N, e \div 2)
    ELSE ((x % N) * ModExp(N, (x * x) % N, e \div 2)) % N

\* big.Int.Exp with a modulus: a negative exponent is a power of the inverse
Exp(N, x, e) == IF e < 0 THEN ModExp(N, Inv(N, x), -e) ELSE ModExp(N, x, e)

\* rsa.Group.Homomorphism: x -> x^E mod N
Homomorphism(h, x) == Exp(h.N, x, h.E)

HomomorphismInv(y) == y

(***************************************************************************)
(* qoneway.RSABased: [N, E, Q], the rsa.Group's modulus and public         *)
(* exponent and the prime Q.                                               *)
(***************************************************************************)
\* the bit length handed to NewRSABased and NewReceiver
BitLength == 4

IsPrime(q) == q > 1 /\ \A d \in 2 .. (q - 1) : q % d # 0

\* the values rand.Prime(rand.Reader, bits) returns: the primes of bits bits
Primes(bits) == {q \in 2 ^ (bits - 1) .. (2 ^ bits - 1) : IsPrime(q)}

\* the groups rsa.NewGroup(bitLen) returns: the modulus is a product of two
\* distinct primes sized by bitLen (of bitLen bits, or one more), with the
\* public exponent of the generated key
NewGroup(bitLen) ==
    {[N |-> n, E |-> 65537] :
        n \in {m \in 2 ^ (bitLen - 1) .. (2 ^ (bitLen + 1) - 1) :
                  \E p \in 2 .. m, q \in 2 .. m :
                      p < q /\ IsPrime(p) /\ IsPrime(q) /\ p * q = m}}

\* a slip: the exponent of the group is left as the key's
NewRSABasedKeepsE(rsa, q) ==
    IF ~(q > rsa.N)
    THEN [h |-> Nil, err |-> TRUE]
    ELSE [h |-> [N |-> rsa.N, E |-> rsa.E, Q |-> q], err |-> FALSE]

\* rsa is the group rsa.NewGroup returns, q the prime rand.Prime returns
NewRSABased(rsa, q) ==
    IF ~(q > rsa.N)
    THEN [h |-> Nil, err |-> TRUE]
    ELSE [h |-> [N |-> rsa.N, E |-> q, Q |-> q], err |-> FALSE]

\* the toy q-one-way set-ups of the protocol specification: N = p * q of 4 bits,
\* Q a prime of 5 bits (so Q > N) for which x -> x^Q is not the identity
Setups == {NewRSABased([N |-> 10, E |-> 65537], 19).h}

\* the set-ups GetCommitmentToMultiplication is applied under
MulSetups == Setups \cup {NewRSABased([N |-> 15, E |-> 65537], 19).h}

(***************************************************************************)
(* qoneway.Committer                                                       *)
(***************************************************************************)
\* a slip: the base is taken as it comes
NewCommitterUnchecked(h, y) ==
    [c |-> [Y |-> y, committedValue |-> Nil, r |-> Nil], err |-> FALSE]

NewCommitter(h, y) ==
    IF ~IsElementInGroup(h.N, y)
    THEN [c |-> Nil, err |-> TRUE]
    ELSE [c |-> [Y |-> y, committedValue |-> Nil, r |-> Nil], err |-> FALSE]

\* a slip: the blinding factor is drawn and not multiplied in
computeCommitmentUnblinded(h, c, a, rnd) ==
    [commitment |-> Exp(h.N, c.Y, a), r |-> rnd]

\* rnd is the value GetRandomElement returns
computeCommitment(h, c, a, rnd) ==
    LET r == rnd
        t1 == Exp(h.N, c.Y, a)
        t2 == Homomorphism(h, r)
        commitment == Mul(h.N, t1, t2)
    IN  [commitment |-> commitment, r |-> r]

\* a slip: the blinding factor of the new commitment is not stored
GetCommitMsgKeepsR(h, c, a, rnd) ==
    IF ~(a < h.Q)
    THEN [c |-> c, out |-> Nil, err |-> TRUE]
    ELSE LET cr == computeCommitment(h, c, a, rnd)
         IN  [c   |-> [c EXCEPT !.committedValue = Some(a)],
              out |-> Some(cr.commitment),
              err |-> FALSE]

\* a slip: the value is stored before the range check
GetCommitMsgStoresFirst(h, c, a, rnd) ==
    IF ~(a < h.Q)
    THEN [c |-> [c EXCEPT !.committedValue = Some(a)], out |-> Nil, err |-> TRUE]
    ELSE LET cr == computeCommitment(h, c, a, rnd)
         IN  [c   |-> [c EXCEPT !.committedValue = Some(a), !.r = Some(cr.r)],
              out |-> Some(cr.commitment),
              err |-> FALSE]

GetCommitMsg(h, c, a, rnd) ==
    IF ~(a < h.Q)
    THEN [c |-> c, out |-> Nil, err |-> TRUE]
    ELSE LET cr == computeCommitment(h, c, a, rnd)
         IN  [c   |-> [c EXCEPT !.committedValue = Some(a), !.r = Some(cr.r)],
              out |-> Some(cr.commitment),
              err |-> FALSE]

GetDecommitMsg(c) == <<c.committedValue, c.r>>

\* a slip: the correction Y^(-j) for the wrap-around of a * b past Q is left out
GetCommitmentToMultiplicationNoWrap(h, c, a, b, u, rnd) ==
    LET commitment == a * b
        cMod == commitment % h.Q
        Co == computeCommitment(h, c, cMod, rnd)
        uToa == Exp(h.N, u, a)
        uToaInv == Inv(h.N, uToa)
        t == Mul(h.N, Co.r, uToaInv)
    IN  [c |-> c, C |-> Co.commitment, o |-> Co.r, t |-> t]

\* a slip: the product and its blinding factor become the pending state
GetCommitmentToMultiplicationStores(h, c, a, b, u, rnd) ==
    LET commitment == a * b
        cMod == commitment % h.Q
        Co == computeCommitment(h, c, cMod, rnd)
        j == (commitment - cMod) \div h.Q
        t0 == Mul(h.N, Co.r, Inv(h.N, Exp(h.N, u, a)))
        t == Mul(h.N, t0, HomomorphismInv(Inv(h.N, Exp(h.N, c.Y, j))))
    IN  [c |-> [c EXCEPT !.committedValue = Some(cMod), !.r = Some(Co.r)],
         C |-> Co.commitment, o |-> Co.r, t |-> t]

\* rnd is the value GetRandomElement returns inside computeCommitment
GetCommitmentToMultiplication(h, c, a, b, u, rnd) ==
    LET commitment == a * b
        cMod == commitment % h.Q
        Co == computeCommitment(h, c, cMod, rnd)
        j == (commitment - cMod) \div h.Q
        uToa == Exp(h.N, u, a)
        uToaInv == Inv(h.N, uToa)
        t0 == Mul(h.N, Co.r, uToaInv)
        yToj == Exp(h.N, c.Y, j)
        yTojInv == Inv(h.N, yToj)
        t1 == HomomorphismInv(yTojInv)
        t == Mul(h.N, t0, t1)
    IN  [c |-> c, C |-> Co.commitment, o |-> Co.r, t |-> t]

(***************************************************************************)
(* qoneway.Receiver                                                        *)
(***************************************************************************)
\* a slip: a commitment already stored is kept
SetCommitmentOnce(rc, c) ==
    IF rc.commitment = Nil THEN [rc EXCEPT !.commitment = Some(c)] ELSE rc

\* rsa and q are what NewRSABased draws, x the value GetRandomElement returns
NewReceiver(rsa, q, x) ==
    LET qOneWay == NewRSABased(rsa, q)
    IN  IF qOneWay.err
        THEN [h |-> Nil, r |-> Nil, err |-> TRUE]
        ELSE [h |-> qOneWay.h,
              r |-> [x |-> x, Y |-> Homomorphism(qOneWay.h, x), commitment |-> Nil],
              err |-> FALSE]

SetCommitment(rc, c) == [rc EXCEPT !.commitment = Some(c)]

\* a slip: R is multiplied in as it is, not as R^Q
CheckDecommitmentPlainR(h, rc, R, a) ==
    LET t1 == Exp(h.N, rc.Y, a)
        c  == Mul(h.N, t1, R)
    IN  c = Val(rc.commitment)

\* c.Cmp(r.commitment) dereferences r.commitment: a nil commitment panics
CheckDecommitment(h, rc, R, a) ==
    LET t1 == Exp(h.N, rc.Y, a)
        t2 == Exp(h.N, R, h.Q)
        c  == Mul(h.N, t1, t2)
    IN  c = Val(rc.commitment)

\* no equality proof is set up
NoEquality == prover = Nil /\ verifier = Nil /\ tmsg = Nil /\ smsg = Nil /\ chBy = "none"

(***************************************************************************)
(* The commitment protocol: one Receiver and the Committer built from its  *)
(* homomorphism and its Y, driven by any sequence of calls.                *)
(***************************************************************************)
Values(h) == ((0 - Slack) .. MaxVal) \cup ((h.Q - 1) .. (h.Q - 1 + Slack))

Init ==
    /\ setup \in Setups
    /\ \E x \in GroupElements(setup.N) :
          LET y == Homomorphism(setup, x)
          IN  /\ receiver = [Y |-> y, x |-> x, commitment |-> Nil]
              /\ committer = [Y |-> y, committedValue |-> Nil, r |-> Nil]
    /\ sent = Nil
    /\ NoEquality
    /\ ret = [op |-> "New", args |-> <<>>, out |-> <<>>, err |-> FALSE]

DoGetCommitMsg ==
    \E a \in Values(setup), rnd \in GroupElements(setup.N) :
        \E res \in {GetCommitMsg(setup, committer, a, rnd)} :
            /\ committer' = res.c
            /\ sent' = IF res.err THEN sent ELSE <<a, Val(res.out)>>
            /\ ret' = [op |-> "GetCommitMsg", args |-> <<a>>, out |-> res.out,
                       err |-> res.err]
            /\ UNCHANGED <<setup, receiver, eqvars>>

DoSetCommitment ==
    \E c \in GroupElements(setup.N) \cup {0} :
        /\ receiver' = SetCommitment(receiver, c)
        /\ ret' = [op |-> "SetCommitment", args |-> <<c>>, out |-> <<>>, err |-> FALSE]
        /\ UNCHANGED <<setup, committer, sent, eqvars>>

DoGetDecommitMsg ==
    /\ ret' = [op |-> "GetDecommitMsg", args |-> <<>>, out |-> GetDecommitMsg(committer),
               err |-> FALSE]
    /\ UNCHANGED <<setup, receiver, committer, sent, eqvars>>

DoCheckDecommitment ==
    \E R \in GroupElements(setup.N), a \in Values(setup) :
        /\ ret' = IF receiver.commitment = Nil
                  THEN [op |-> "CheckDecommitment", args |-> <<R, a>>, out |-> <<>>,
                        err |-> TRUE]
                  ELSE [op |-> "CheckDecommitment", args |-> <<R, a>>,
                        out |-> <<CheckDecommitment(setup, receiver, R, a)>>,
                        err |-> FALSE]
        /\ UNCHANGED <<setup, receiver, committer, sent, eqvars>>

Next ==
    \/ DoGetCommitMsg
    \/ DoSetCommitment
    \/ DoGetDecommitMsg
    \/ DoCheckDecommitment

Spec == Init /\ [][Next]_vars

(***************************************************************************)
(* Properties of the commitment protocol.                                  *)
(***************************************************************************)
InRange(a) == a \in 0 .. (setup.Q - 1)

\* the Receiver holds the commitment the last successful GetCommitMsg returned
Delivered == sent # Nil /\ receiver.commitment = Some(sent[2])

HonestOpening == <<Val(committer.r), Val(committer.committedValue)>>

\* C1: opening round trip. After any sequence of rounds, once GetCommitMsg(a)
\* returned c for a in [0, Q) and the Receiver stored c, GetDecommitMsg returns
\* (a, r) with the a that was committed, and CheckDecommitment(r, a) is true.
C1_RoundTrip ==
    (Delivered /\ InRange(sent[1])) =>
        LET d == GetDecommitMsg(committer)
        IN  /\ d[1] = Some(sent[1])
            /\ d[2] # Nil
            /\ CheckDecommitment(setup, receiver, Val(d[2]), Val(d[1]))
            /\ (ret.op = "CheckDecommitment" /\ ret.args = HonestOpening)
                   => ret.out = <<TRUE>>

C1_Witness ==
    /\ Delivered
    /\ InRange(sent[1])
    /\ sent[1] > 1
    /\ receiver.Y # 1
    /\ ret.op = "CheckDecommitment"
    /\ ret.args = HonestOpening
    /\ ret.out = <<TRUE>>

\* C2 as claimed: after GetCommitMsg(a) returned c and the Receiver stored c,
\* CheckDecommitment(R', a') is true only for the pair (r, a) of GetDecommitMsg:
\* false for every a' # a in [0, Q) and every group element R'.
C2_BindingExhaustive ==
    (Delivered /\ InRange(sent[1])) =>
        \A a2 \in 0 .. (setup.Q - 1), R2 \in GroupElements(setup.N) :
            CheckDecommitment(setup, receiver, R2, a2) => <<R2, a2>> = HonestOpening

\* C2 as amended: among the group elements, CheckDecommitment(R', a') is true
\* exactly for R' = r * x^(a - a') with x the Receiver's secret: for a' = a
\* only R' = r is accepted, and every other a' has exactly one accepted R'.
C2_BindingUpToTrapdoor ==
    (Delivered /\ InRange(sent[1])) =>
        LET a == Val(committer.committedValue)
            r == Val(committer.r)
            Equiv(a2) == Mul(setup.N, r, Exp(setup.N, receiver.x, a - a2))
        IN  /\ \A a2 \in 0 .. (setup.Q - 1), R2 \in GroupElements(setup.N) :
                  CheckDecommitment(setup, receiver, R2, a2) <=> (R2 = Equiv(a2))
            /\ \A R2 \in GroupElements(setup.N) :
                  CheckDecommitment(setup, receiver, R2, a) <=> (R2 = r)
            /\ (ret.op = "CheckDecommitment" /\ InRange(ret.args[2]))
                   => ret.out = <<ret.args[1] = Equiv(ret.args[2])>>

\* a rejected opening with another value, and R' = r
C2_Witness ==
    /\ Delivered
    /\ InRange(sent[1])
    /\ ret.op = "CheckDecommitment"
    /\ ret.args = <<Val(committer.r), Val(committer.committedValue) + 1>>
    /\ ret.out = <<FALSE>>

\* C6 as claimed: GetCommitMsg(a) returns an error and no commitment for every
\* a outside [0, Q), a >= Q and a < 0, and succeeds for every a in [0, Q).
C6_RangeCheck ==
    ret.op = "GetCommitMsg" =>
        /\ ret.err <=> ~InRange(ret.args[1])
        /\ ret.err <=> (ret.out = Nil)

\* C7: a GetCommitMsg that fails leaves the Committer untouched: GetDecommitMsg
\* returns what it returned before, and a Receiver holding the earlier
\* commitment still accepts that opening.
C7_FailedCommitKeepsState ==
    [][(ret'.op = "GetCommitMsg" /\ ret'.err) =>
          /\ GetDecommitMsg(committer') = GetDecommitMsg(committer)
          /\ committer' = committer
          /\ receiver' = receiver
          /\ (Delivered /\ InRange(sent[1])) =>
                 /\ Delivered'
                 /\ CheckDecommitment(setup', receiver', Val(GetDecommitMsg(committer')[2]),
                                      Val(GetDecommitMsg(committer')[1]))]_vars

\* a failed GetCommitMsg after a delivered commitment
C7_Witness ==
    /\ ret.op = "GetCommitMsg"
    /\ ret.err
    /\ Delivered
    /\ InRange(sent[1])
    /\ committer.committedValue = Some(sent[1])

\* C10 as claimed: GetDecommitMsg on a Committer on which no GetCommitMsg has
\* succeeded is reported as an error, not answered with unset values.
C10_DecommitBeforeCommitIsError ==
    (ret.op = "GetDecommitMsg" /\ sent = Nil) =>
        (ret.err /\ ret.out # <<Nil, Nil>>)

(***************************************************************************)
(* GetCommitmentToMultiplication applied to every a, b in [0, Q) and every *)
(* group element u, on a Committer with or without a pending commitment.   *)
(***************************************************************************)
InitMul ==
    /\ setup \in MulSetups
    /\ \E x \in GroupElements(setup.N) :
          LET y == Homomorphism(setup, x)
              fresh == [Y |-> y, committedValue |-> Nil, r |-> Nil]
          IN  /\ receiver = [Y |-> y, x |-> x, commitment |-> Nil]
              /\ committer \in {fresh, GetCommitMsg(setup, fresh, 1, setup.N - 1).c}
    /\ sent = Nil
    /\ NoEquality
    /\ \E a \in 0 .. (setup.Q - 1), b \in 0 .. (setup.Q - 1),
          u \in GroupElements(setup.N) :
          ret = [op |-> "MulInput", args |-> <<a, b, u>>, out |-> <<>>, err |-> FALSE]

DoGetCommitmentToMultiplication ==
    \E rnd \in GroupElements(setup.N) :
        /\ ret.op = "MulInput"
        /\ \E res \in {GetCommitmentToMultiplication(setup, committer, ret.args[1],
                                                     ret.args[2], ret.args[3], rnd)} :
               /\ committer' = res.c
               /\ ret' = [op |-> "GetCommitmentToMultiplication", args |-> ret.args,
                          out |-> <<res.C, res.o, res.t>>, err |-> FALSE]
        /\ UNCHANGED <<setup, receiver, sent, eqvars>>

NextMul == DoGetCommitmentToMultiplication

SpecMul == InitMul /\ [][NextMul]_vars

\* C3: multiplication relation. For all a, b in [0, Q) and every group element
\* u, with B = Y^b * f(u), GetCommitmentToMultiplication(a, b, u) returns
\* (C, o, t) with C = B^a * f(t) and C = Y^(a*b mod Q) * f(o), so that a Receiver
\* that stored C accepts (o, a*b mod Q); j = (a*b - (a*b mod Q)) / Q is exact
\* and t = o * u^(-a) * Y^(-j) in the group.
C3_MultiplicationRelation ==
    ret.op = "GetCommitmentToMultiplication" =>
        LET a == ret.args[1]
            b == ret.args[2]
            u == ret.args[3]
            C == ret.out[1]
            o == ret.out[2]
            t == ret.out[3]
            N == setup.N
            ab == (a * b) % setup.Q
            j == (a * b - ab) \div setup.Q
            B == computeCommitment(setup, committer, b, u).commitment
        IN  /\ C = Mul(N, Exp(N, B, a), Homomorphism(setup, t))
            /\ C = Mul(N, Exp(N, committer.Y, ab), Homomorphism(setup, o))
            /\ CheckDecommitment(setup, SetCommitment(receiver, C), o, ab)
            /\ j * setup.Q + ab = a * b
            /\ t = Mul(N, Mul(N, o, Exp(N, u, 0 - a)), Exp(N, committer.Y, 0 - j))

\* a product that wraps past Q, with a base, a blinding factor and a correction
\* that are not 1
C3_Witness ==
    /\ ret.op = "GetCommitmentToMultiplication"
    /\ ret.args[1] * ret.args[2] >= 2 * setup.Q
    /\ receiver.Y # 1
    /\ ret.args[3] # 1
    /\ Exp(setup.N, committer.Y, (ret.args[1] * ret.args[2]) \div setup.Q) # 1
    /\ ret.out[3] # ret.out[2]

(***************************************************************************)
(* Package df: the Damgard-Fujisaki commitment G^a * H^r mod N over the    *)
(* quadratic residues of a special RSA modulus, as EqualityProver and      *)
(* EqualityVerifier use it (QRSpecialRSA, T, B, ComputeCommit,             *)
(* GetDecommitMsg, Commitment).                                            *)
(***************************************************************************)
\* two toy parameter sets with different moduli: N = 7 * 11 and N = 5 * 7,
\* G a generator of the quadratic residues, H a power of G, values in [0, T),
\* 2^B an upper bound of the group order, K the security parameter
DFParams ==
    <<[N |-> 77, G |-> 4, H |-> 16, T |-> 3, B |-> 5, K |-> 1],
      [N |-> 35, G |-> 4, H |-> 9, T |-> 3, B |-> 4, K |-> 1]>>

\* the challenges are drawn from [0, 2^challengeSpaceSize)
ChallengeSpaceSize == 2

RECURSIVE BitLen(_)
BitLen(n) == IF n = 0 THEN 0 ELSE 1 + BitLen(n \div 2)

\* the values common.GetRandomInt(b) returns, sampled
RandomInts(b) == {v \in 0 .. (MaxSample - 1) : v < b} \cup {b - 1}

ComputeCommit(p, a, r) ==
    LET tmp1 == Exp(p.N, p.G, a)
        tmp2 == Exp(p.N, p.H, r)
    IN  Mul(p.N, tmp1, tmp2)

NewDFCommitter(p) == [p |-> p, committedValue |-> Nil, r |-> Nil]

\* rnd is the blinding factor drawn from [0, 2^(B + 2K))
DFGetCommitMsg(c, a, rnd) ==
    IF ~(a < c.p.T /\ 0 - a < c.p.T)
    THEN [c |-> c, out |-> Nil, err |-> TRUE]
    ELSE [c   |-> [c EXCEPT !.committedValue = Some(a), !.r = Some(rnd)],
          out |-> Some(ComputeCommit(c.p, a, rnd)),
          err |-> FALSE]

DFGetDecommitMsg(c) == <<c.committedValue, c.r>>

(***************************************************************************)
(* df.EqualityProver                                                       *)
(***************************************************************************)
NewEqualityProver(committer1, committer2, challengeSpaceSize) ==
    [committer1 |-> committer1, committer2 |-> committer2,
     challengeSpaceSize |-> challengeSpaceSize, r1 |-> Nil, r21 |-> Nil, r22 |-> Nil]

\* the interval r1 is drawn from: [0, T * 2^(nLen + challengeSpaceSize))
R1Bound(p) ==
    LET nLen == BitLen(p.committer1.p.N)
    IN  2 ^ (nLen + p.challengeSpaceSize) * p.committer1.p.T

\* the interval r21 is drawn from: [0, 2^(B + 2*nLen + challengeSpaceSize))
R21Bound(p) ==
    LET nLen == BitLen(p.committer1.p.N)
    IN  2 ^ (p.committer1.p.B + 2 * nLen + p.challengeSpaceSize)

\* the interval r22 is drawn from: the same, of committer1's parameters
R22Bound(p) ==
    LET nLen == BitLen(p.committer1.p.N)
    IN  2 ^ (p.committer1.p.B + 2 * nLen + p.challengeSpaceSize)

\* a slip: both random commitments are computed by committer1
GetProofRandomDataOneCommitter(p, d1, d21, d22) ==
    [p |-> [p EXCEPT !.r1 = Some(d1), !.r21 = Some(d21), !.r22 = Some(d22)],
     t1 |-> ComputeCommit(p.committer1.p, d1, d21),
     t2 |-> ComputeCommit(p.committer1.p, d1, d22)]

\* d1, d21, d22 are the values common.GetRandomInt returns
GetProofRandomData(p, d1, d21, d22) ==
    LET r1 == d1
        r21 == d21
        r22 == d22
        t1 == ComputeCommit(p.committer1.p, r1, r21)
        t2 == ComputeCommit(p.committer2.p, r1, r22)
    IN  [p |-> [p EXCEPT !.r1 = Some(r1), !.r21 = Some(r21), !.r22 = Some(r22)],
         t1 |-> t1, t2 |-> t2]

\* a slip (the one of the function's own comment): s22 = r21 + challenge*rr2
GetProofDataR21Twice(p, challenge) ==
    LET d1 == DFGetDecommitMsg(p.committer1)
        d2 == DFGetDecommitMsg(p.committer2)
    IN  IF Nil \in {d1[1], d1[2], d2[2], p.r1, p.r21, p.r22}
        THEN [panic |-> TRUE, out |-> <<>>]
        ELSE [panic |-> FALSE,
              out |-> <<challenge * Val(d1[1]) + Val(p.r1),
                        challenge * Val(d1[2]) + Val(p.r21),
                        challenge * Val(d2[2]) + Val(p.r21)>>]

\* a slip: the responses are reduced modulo the Committers' moduli
GetProofDataReduced(p, challenge) ==
    LET d1 == DFGetDecommitMsg(p.committer1)
        d2 == DFGetDecommitMsg(p.committer2)
    IN  IF Nil \in {d1[1], d1[2], d2[2], p.r1, p.r21, p.r22}
        THEN [panic |-> TRUE, out |-> <<>>]
        ELSE [panic |-> FALSE,
              out |-> <<(challenge * Val(d1[1]) + Val(p.r1)) % p.committer1.p.N,
                        (challenge * Val(d1[2]) + Val(p.r21)) % p.committer1.p.N,
                        (challenge * Val(d2[2]) + Val(p.r22)) % p.committer2.p.N>>]

\* big.Int arithmetic on a nil pointer (an unset mask, an uncommitted
\* Committer) panics
GetProofData(p, challenge) ==
    LET d1 == DFGetDecommitMsg(p.committer1)
        d2 == DFGetDecommitMsg(p.committer2)
        a == d1[1]
        rr1 == d1[2]
        rr2 == d2[2]
    IN  IF Nil \in {a, rr1, rr2, p.r1, p.r21, p.r22}
        THEN [panic |-> TRUE, out |-> <<>>]
        ELSE LET s1 == challenge * Val(a) + Val(p.r1)
                 s21 == challenge * Val(rr1) + Val(p.r21)
                 s22 == challenge * Val(rr2) + Val(p.r22)
             IN  [panic |-> FALSE, out |-> <<s1, s21, s22>>]

(***************************************************************************)
(* df.EqualityVerifier                                                     *)
(***************************************************************************)
NewEqualityVerifier(receiver1, receiver2, challengeSpaceSize) ==
    [receiver1 |-> receiver1, receiver2 |-> receiver2,
     challengeSpaceSize |-> challengeSpaceSize, challenge |-> Nil,
     proofRandomData1 |-> Nil, proofRandomData2 |-> Nil]

SetProofRandomData(v, proofRandomData1, proofRandomData2) ==
    [v EXCEPT !.proofRandomData1 = Some(proofRandomData1),
              !.proofRandomData2 = Some(proofRandomData2)]

\* the interval the challenge is drawn from: [0, 2^challengeSpaceSize)
ChallengeBound(v) == 2 ^ v.challengeSpaceSize

\* a slip: the challenge drawn is returned and not stored
GetChallengeNotStored(v, d) == [v |-> v, challenge |-> d]

\* d is the value common.GetRandomInt returns
GetChallenge(v, d) == [v |-> [v EXCEPT !.challenge = Some(d)], challenge |-> d]

SetChallenge(v, challenge) == [v EXCEPT !.challenge = Some(challenge)]

\* a slip: only the first of the two equalities is checked
VerifyFirstOnly(v, s1, s21, s22) ==
    IF Nil \in {v.challenge, v.proofRandomData1, v.proofRandomData2,
                v.receiver1.Commitment, v.receiver2.Commitment}
    THEN [panic |-> TRUE, ok |-> FALSE]
    ELSE LET p1 == v.receiver1.p
             left1 == Mul(p1.N, Val(v.proofRandomData1),
                          Exp(p1.N, Val(v.receiver1.Commitment), Val(v.challenge)))
             right1 == ComputeCommit(p1, s1, s21)
         IN  [panic |-> FALSE, ok |-> left1 = right1]

\* big.Int arithmetic on a nil pointer (no challenge, no random data, no
\* commitment) panics
Verify(v, s1, s21, s22) ==
    IF Nil \in {v.challenge, v.proofRandomData1, v.proofRandomData2,
                v.receiver1.Commitment, v.receiver2.Commitment}
    THEN [panic |-> TRUE, ok |-> FALSE]
    ELSE LET p1 == v.receiver1.p
             p2 == v.receiver2.p
             left1a == Exp(p1.N, Val(v.receiver1.Commitment), Val(v.challenge))
             left1 == Mul(p1.N, Val(v.proofRandomData1), left1a)
             right1 == ComputeCommit(p1, s1, s21)
             left2a == Exp(p2.N, Val(v.receiver2.Commitment), Val(v.challenge))
             left2 == Mul(p2.N, Val(v.proofRandomData2), left2a)
             right2 == ComputeCommit(p2, s1, s22)
         IN  [panic |-> FALSE, ok |-> left1 = right1 /\ left2 = right2]

(***************************************************************************)
(* The equality proof: one EqualityProver over two Committers and one      *)
(* EqualityVerifier over the two Receivers that hold their commitments,    *)
(* driven by any sequence of calls.  In ret, err is a panic.               *)
(***************************************************************************)
\* a Committer of parameters p and the Receiver it has sent its commitment to:
\* nothing committed yet, or a value of [0, T) committed
DFPairs(p) ==
    {[c |-> NewDFCommitter(p), r |-> [p |-> p, Commitment |-> Nil]]}
    \cup
    {LET res == DFGetCommitMsg(NewDFCommitter(p), a, rnd)
     IN  [c |-> res.c, r |-> [p |-> p, Commitment |-> res.out]] :
        a \in 0 .. (p.T - 1), rnd \in RandomInts(2 ^ (p.B + 2 * p.K))}

\* no commitment protocol is set up
NoCommitment == setup = Nil /\ receiver = Nil /\ committer = Nil /\ sent = Nil

\* the prover and the verifier as constructed over two Committers, both fresh or
\* both committed, and their Receivers
InitProof ==
    /\ NoCommitment
    /\ \E pair1 \in DFPairs(DFParams[1]), pair2 \in DFPairs(DFParams[2]) :
          /\ (pair1.c.committedValue = Nil) <=> (pair2.c.committedValue = Nil)
          /\ prover = NewEqualityProver(pair1.c, pair2.c, ChallengeSpaceSize)
          /\ verifier = NewEqualityVerifier(pair1.r, pair2.r, ChallengeSpaceSize)
    /\ tmsg = Nil
    /\ smsg = Nil
    /\ chBy = "none"
    /\ ret = [op |-> "New", args |-> <<>>, out |-> <<>>, err |-> FALSE]

\* the blinding factor a committed Committer drew is the top of its interval
TopBlinding(c) == c.r \in {Nil, Some(2 ^ (c.p.B + 2 * c.p.K) - 1)}

InitEq ==
    /\ InitProof
    /\ TopBlinding(prover.committer1)
    /\ TopBlinding(prover.committer2)

DoGetProofRandomData ==
    \E d1 \in RandomInts(R1Bound(prover)), d21 \in RandomInts(R21Bound(prover)),
       d22 \in RandomInts(R22Bound(prover)) :
        \E res \in {GetProofRandomData(prover, d1, d21, d22)} :
            /\ prover' = res.p
            /\ tmsg' = <<res.t1, res.t2>>
            /\ smsg' = Nil
            /\ ret' = [op |-> "GetProofRandomData", args |-> <<>>,
                       out |-> <<res.t1, res.t2>>, err |-> FALSE]
            /\ UNCHANGED <<qvars, verifier, chBy>>

DoSetProofRandomData ==
    /\ tmsg # Nil
    /\ verifier' = SetProofRandomData(verifier, tmsg[1], tmsg[2])
    /\ ret' = [op |-> "SetProofRandomData", args |-> tmsg, out |-> <<>>, err |-> FALSE]
    /\ UNCHANGED <<qvars, prover, tmsg, smsg, chBy>>

DoGetChallenge ==
    \E d \in 0 .. (ChallengeBound(verifier) - 1) :
        \E res \in {GetChallenge(verifier, d)} :
            /\ verifier' = res.v
            /\ chBy' = "GetChallenge"
            /\ ret' = [op |-> "GetChallenge", args |-> <<>>, out |-> <<res.challenge>>,
                       err |-> FALSE]
            /\ UNCHANGED <<qvars, prover, tmsg, smsg>>

DoSetChallenge ==
    \E e \in 0 .. (2 ^ ChallengeSpaceSize - 1) :
        /\ verifier' = SetChallenge(verifier, e)
        /\ chBy' = "SetChallenge"
        /\ ret' = [op |-> "SetChallenge", args |-> <<e>>, out |-> <<>>, err |-> FALSE]
        /\ UNCHANGED <<qvars, prover, tmsg, smsg>>

DoGetProofData ==
    \E e \in 0 .. (2 ^ ChallengeSpaceSize - 1) :
        \E res \in {GetProofData(prover, e)} :
            /\ smsg' = IF res.panic THEN smsg ELSE <<e>> \o res.out
            /\ ret' = [op |-> "GetProofData", args |-> <<e>>, out |-> res.out,
                       err |-> res.panic]
            /\ UNCHANGED <<qvars, prover, verifier, tmsg, chBy>>

DoVerify ==
    /\ smsg # Nil
    /\ \E res \in {Verify(verifier, smsg[2], smsg[3], smsg[4])} :
          ret' = [op |-> "Verify", args |-> <<smsg[2], smsg[3], smsg[4]>>,
                  out |-> IF res.panic THEN <<>> ELSE <<res.ok>>, err |-> res.panic]
    /\ UNCHANGED <<qvars, prover, verifier, tmsg, smsg, chBy>>

NextEq ==
    \/ DoGetProofRandomData
    \/ DoSetProofRandomData
    \/ DoGetChallenge
    \/ DoSetChallenge
    \/ DoGetProofData
    \/ DoVerify

SpecEq == InitEq /\ [][NextEq]_vars

(***************************************************************************)
(* The honest transcript of one proof: GetProofRandomData,                 *)
(* SetProofRandomData, GetChallenge or SetChallenge, GetProofData with the *)
(* verifier's challenge, Verify with the prover's response.                *)
(***************************************************************************)
InitRun == InitProof /\ prover.committer1.committedValue # Nil

RunGetProofRandomData == ret.op = "New" /\ DoGetProofRandomData

RunSetProofRandomData == ret.op = "GetProofRandomData" /\ DoSetProofRandomData

RunGetChallenge == ret.op = "SetProofRandomData" /\ DoGetChallenge

RunSetChallenge == ret.op = "SetProofRandomData" /\ DoSetChallenge

RunGetProofData ==
    /\ ret.op \in {"GetChallenge", "SetChallenge"}
    /\ DoGetProofData
    /\ ret'.args = verifier.challenge

RunVerify == ret.op = "GetProofData" /\ DoVerify

NextRun ==
    \/ RunGetProofRandomData
    \/ RunSetProofRandomData
    \/ RunGetChallenge
    \/ RunSetChallenge
    \/ RunGetProofData
    \/ RunVerify

SpecRun == InitRun /\ [][NextRun]_vars

(***************************************************************************)
(* Properties of the equality proof.                                       *)
(***************************************************************************)
Value1 == Val(prover.committer1.committedValue)

Value2 == Val(prover.committer2.committedValue)

Verdict == ret.op = "Verify" /\ ~ret.err

\* C4: completeness. When both Committers hold the same value and the
\* Receivers hold their commitments, the honest transcript ends with Verify
\* returning true, for every challenge in [0, 2^challengeSpaceSize) and every
\* r1, r21, r22, whether the challenge came from GetChallenge or SetChallenge.
C4_Completeness ==
    /\ ret.op = "Verify" => ~ret.err
    /\ (Verdict /\ Value1 = Value2) => ret.out = <<TRUE>>

C4_Witness ==
    /\ Verdict
    /\ Value1 = Value2
    /\ Value1 > 0
    /\ chBy = "SetChallenge"
    /\ verifier.challenge = Some(2 ^ ChallengeSpaceSize - 1)
    /\ prover.r21 # prover.r22
    /\ prover.committer1.r # Some(0)
    /\ ret.out = <<TRUE>>

\* C5 as claimed: when the Committers hold different values a1 # a2 and the
\* prover follows the protocol, Verify returns false for every nonzero
\* challenge; it can return true only for the challenge 0.
C5_MismatchRejected ==
    (Verdict /\ Value1 # Value2 /\ verifier.challenge # Some(0)) => ret.out = <<FALSE>>

\* C5 as amended: with a1 # a2 and a prover that follows the protocol, Verify
\* returns true exactly when G2^(e * (a1 - a2)) = 1 mod N2, that is when
\* e * (a1 - a2) is a multiple of the order of committer2's G: false for every
\* other challenge, and true for e = 0.
C5_MismatchRejectedUpToOrder ==
    (Verdict /\ Value1 # Value2) =>
        LET p2 == prover.committer2.p
            e == Val(verifier.challenge)
        IN  /\ ret.out = <<Exp(p2.N, p2.G, e * (Value1 - Value2)) = 1>>
            /\ e = 0 => ret.out = <<TRUE>>

\* a nonzero challenge rejected
C5_Witness ==
    /\ Verdict
    /\ Value1 # Value2
    /\ verifier.challenge # Some(0)
    /\ chBy = "GetChallenge"
    /\ ret.out = <<FALSE>>

\* C8 as claimed: the masks of one GetProofRandomData call answer one
\* challenge only: GetProofData never returns responses for two different
\* challenges from the same (r1, r21, r22).
C8_OneResponsePerRandomness ==
    [][(ret'.op = "GetProofData" /\ ~ret'.err /\ smsg # Nil /\ prover' = prover)
          => smsg'[1] = smsg[1]]_vars

ProverPhase ==
    IF prover.r1 = Nil THEN "Initial"
    ELSE IF smsg = Nil THEN "RandomDataSent"
    ELSE "ResponseSent"

VerifierPhase ==
    IF Verdict THEN "Verified/Rejected"
    ELSE IF verifier.proofRandomData1 = Nil /\ verifier.challenge = Nil THEN "Initial"
    ELSE IF verifier.challenge = Nil THEN "RandomDataReceived"
    ELSE IF verifier.proofRandomData1 # Nil THEN "ChallengeIssued"
    ELSE "ChallengeWithoutRandomData"

\* C9 as claimed: the prover only moves Initial -> RandomDataSent ->
\* ChallengeReceived -> ResponseSent and the verifier only Initial ->
\* RandomDataReceived -> ChallengeIssued -> Verified/Rejected, so the verifier
\* is always in one of these states (a challenge is installed only after the
\* random data), GetProofData yields a response only after GetProofRandomData,
\* and Verify yields a verdict only after SetProofRandomData and a challenge.
C9_ProtocolOrder ==
    /\ VerifierPhase \in {"Initial", "RandomDataReceived", "ChallengeIssued",
                          "Verified/Rejected"}
    /\ (ret.op = "GetProofData" /\ ~ret.err) => ProverPhase # "Initial"
    /\ Verdict => (verifier.proofRandomData1 # Nil /\ verifier.challenge # Nil)

(***************************************************************************)
(* Construction: NewRSABased, NewReceiver and NewCommitter applied to any  *)
(* group and prime the generators return and to any base Y.                *)
(***************************************************************************)
InitNew ==
    /\ NoCommitment
    /\ NoEquality
    /\ ret = [op |-> "New", args |-> <<>>, out |-> <<>>, err |-> FALSE]

DoNewRSABased ==
    \E rsa \in NewGroup(BitLength), q \in Primes(BitLength + 1) :
        \E res \in {NewRSABased(rsa, q)} :
            /\ setup' = res.h
            /\ receiver' = Nil
            /\ committer' = Nil
            /\ ret' = [op |-> "NewRSABased", args |-> <<rsa.N, q>>, out |-> <<>>,
                       err |-> res.err]
            /\ UNCHANGED <<sent, eqvars>>

DoNewReceiver ==
    \E rsa \in NewGroup(BitLength), q \in Primes(BitLength + 1) :
        \E x \in GroupElements(rsa.N) :
            \E res \in {NewReceiver(rsa, q, x)} :
                /\ setup' = res.h
                /\ receiver' = res.r
                /\ committer' = Nil
                /\ ret' = [op |-> "NewReceiver", args |-> <<rsa.N, q>>, out |-> <<>>,
                           err |-> res.err]
                /\ UNCHANGED <<sent, eqvars>>

\* y is the Receiver's Y or any other integer
DoNewCommitter ==
    /\ setup # Nil
    /\ \E y \in (0 - Slack) .. (setup.N - 1 + Slack) :
          \E res \in {NewCommitter(setup, y)} :
              /\ committer' = res.c
              /\ ret' = [op |-> "NewCommitter", args |-> <<y>>, out |-> <<>>,
                         err |-> res.err]
              /\ UNCHANGED <<setup, receiver, sent, eqvars>>

NextNew ==
    \/ DoNewRSABased
    \/ DoNewReceiver
    \/ DoNewCommitter

SpecNew == InitNew /\ [][NextNew]_vars

\* C11: base validation. NewCommitter(setup, Y) returns an error and no
\* Committer exactly when Y is not in the group (gcd(Y, N) # 1 or Y outside
\* [0, N)); otherwise it returns a Committer with the supplied Y and no pending
\* decommitment state; every existing Committer has Y in the group.
C11_BaseValidation ==
    /\ ret.op = "NewCommitter" =>
          LET y == ret.args[1]
              valid == y \in 0 .. (setup.N - 1) /\ GCD(y, setup.N) = 1
          IN  /\ ret.err <=> ~valid
              /\ ret.err => committer = Nil
              /\ ~ret.err => /\ committer # Nil
                             /\ committer.Y = y
                             /\ GetDecommitMsg(committer) = <<Nil, Nil>>
    /\ committer # Nil => IsElementInGroup(setup.N, committer.Y)

\* a base that shares a factor with N refused, after a Committer was built
C11_Witness ==
    /\ ret.op = "NewCommitter"
    /\ ret.err
    /\ ret.args[1] \in 2 .. (setup.N - 1)
    /\ receiver # Nil
    /\ committer = Nil

IsSetup(h) ==
    /\ IsPrime(h.Q)
    /\ h.Q > h.N
    /\ h.E = h.Q
    /\ \A x \in GroupElements(h.N) : Homomorphism(h, x) = ModExp(h.N, x, h.Q)

\* C12: set-up invariant. Every instance NewRSABased returns without error,
\* and so every Receiver and Committer built on it, has Q prime, Q > N and the
\* group's exponent E = Q, so that Homomorphism(x) = x^Q mod N; when the prime
\* drawn is <= N the constructor returns an error and no instance.
C12_SetupInvariant ==
    /\ setup # Nil => IsSetup(setup)
    /\ receiver # Nil => (setup # Nil /\ receiver.Y = ModExp(setup.N, receiver.x, setup.Q))
    /\ committer # Nil => setup # Nil
    /\ ret.op \in {"NewRSABased", "NewReceiver"} =>
          /\ ret.err <=> ret.args[2] <= ret.args[1]
          /\ ret.err <=> setup = Nil
          /\ ret.err => receiver = Nil

\* a Receiver on an instance whose map x -> x^Q is not the identity
C12_Witness ==
    /\ ret.op = "NewReceiver"
    /\ ~ret.err
    /\ receiver.Y # receiver.x
    /\ setup.Q > setup.N + 1

\* a prime below the modulus refused by NewReceiver
C12_Refused ==
    /\ ret.op = "NewReceiver"
    /\ ret.err
    /\ ret.args[2] < ret.args[1]
    /\ setup = Nil

(***************************************************************************)
(* computeCommitment applied to two values a0 < a1 of [0, Q) under one     *)
(* base Y, with every blinding factor GetRandomElement can return.         *)
(***************************************************************************)
InitHide ==
    /\ setup \in MulSetups
    /\ \E x \in GroupElements(setup.N) :
          \E rcv \in {NewReceiver([N |-> setup.N, E |-> 65537], setup.Q, x).r} :
              /\ receiver = rcv
              /\ committer = NewCommitter(setup, rcv.Y).c
    /\ sent = Nil
    /\ NoEquality
    /\ \E a0 \in 0 .. (setup.Q - 1), a1 \in 0 .. (setup.Q - 1) :
          /\ a0 < a1
          /\ ret = [op |-> "HideInput", args |-> <<a0, a1>>, out |-> <<>>, err |-> FALSE]

\* one commitment to a0 or to a1
DoComputeCommitment ==
    \E i \in 1 .. 2, rnd \in GroupElements(setup.N) :
        /\ ret.op = "HideInput"
        /\ \E res \in {computeCommitment(setup, committer, ret.args[i], rnd)} :
               ret' = [op |-> "computeCommitment", args |-> ret.args,
                       out |-> <<i, res.commitment, res.r>>, err |-> FALSE]
        /\ UNCHANGED <<setup, receiver, committer, sent, eqvars>>

NextHide == DoComputeCommitment

SpecHide == InitHide /\ [][NextHide]_vars

\* the number of blinding factors r with computeCommitment(a; r) = C
Openings(a, C) ==
    Cardinality({r \in GroupElements(setup.N) :
                    computeCommitment(setup, committer, a, r).commitment = C})

\* C13: hiding at toy scale. For a fixed base Y and any two values a0 # a1 of
\* [0, Q), every group element C is the commitment of a0 for as many blinding
\* factors r as it is the commitment of a1, and every commitment returned is a
\* group element: the commitment alone does not tell a0 from a1.
C13_Hiding ==
    /\ ret.op = "HideInput" =>
          \A C \in GroupElements(setup.N) :
              Openings(ret.args[1], C) = Openings(ret.args[2], C)
    /\ ret.op = "computeCommitment" =>
          /\ ret.out[2] \in GroupElements(setup.N)
          /\ Openings(ret.args[1], ret.out[2]) = Openings(ret.args[2], ret.out[2])

\* a commitment to a0 that no blinding factor makes Y^a1 * f(r) with the same r
C13_Witness ==
    /\ ret.op = "computeCommitment"
    /\ ret.out[1] = 1
    /\ ret.args[1] # ret.args[2]
    /\ Exp(setup.N, committer.Y, ret.args[1]) # Exp(setup.N, committer.Y, ret.args[2])
    /\ Openings(ret.args[2], ret.out[2]) = 1
    /\ computeCommitment(setup, committer, ret.args[2], ret.out[3]).commitment # ret.out[2]

(***************************************************************************)
(* The Committer alone: GetCommitMsg, GetDecommitMsg and                   *)
(* GetCommitmentToMultiplication in any order.                             *)
(***************************************************************************)
\* the factors handed to GetCommitmentToMultiplication here: the largest low
\* value and the top value of [0, Q)
Factors(h) == {MaxVal, h.Q - 1}

DoMultiply ==
    \E a \in Factors(setup), b \in Factors(setup) :
        \E u \in GroupElements(setup.N), rnd \in GroupElements(setup.N) :
            \E res \in {GetCommitmentToMultiplication(setup, committer, a, b, u, rnd)} :
                /\ committer' = res.c
                /\ ret' = [op |-> "GetCommitmentToMultiplication", args |-> <<a, b, u>>,
                           out |-> <<res.C, res.o, res.t>>, err |-> FALSE]
                /\ UNCHANGED <<setup, receiver, sent, eqvars>>

NextCommitter ==
    \/ DoGetCommitMsg
    \/ DoGetDecommitMsg
    \/ DoMultiply

SpecCommitter == Init /\ [][NextCommitter]_vars

\* the two fields are set together, to the (a, r) of the last commitment sent
PendingState ==
    /\ (committer.committedValue = Nil) <=> (committer.r = Nil)
    /\ (sent = Nil) <=> (committer.committedValue = Nil)
    /\ sent # Nil =>
          /\ committer.committedValue = Some(sent[1])
          /\ computeCommitment(setup, committer, Val(committer.committedValue),
                                Val(committer.r)).commitment = sent[2]
    /\ ret.op = "GetDecommitMsg" =>
          /\ ret.out = <<committer.committedValue, committer.r>>
          /\ (ret.out[1] = Nil) <=> (ret.out[2] = Nil)
    /\ (ret.op = "GetCommitMsg" /\ ~ret.err) =>
          /\ sent = <<ret.args[1], Val(ret.out)>>
          /\ committer.r # Nil

\* C14: pending state of the Committer. committedValue and r are both unset or
\* both set; when set they are the (a, r) of the most recent successful
\* GetCommitMsg, and Y^committedValue * f(r) mod N is the commitment that call
\* returned; GetDecommitMsg returns the two together, and no call changes one
\* without the other: only a successful GetCommitMsg changes them.
C14_PendingState ==
    /\ []PendingState
    /\ [][/\ (committer'.committedValue # committer.committedValue
                 \/ committer'.r # committer.r)
             => (ret'.op = "GetCommitMsg" /\ ~ret'.err
                 /\ committer'.committedValue = Some(ret'.args[1])
                 /\ committer'.r # Nil)
          /\ committer'.Y = committer.Y]_vars

\* GetDecommitMsg returning the pair of a commitment to MaxVal
C14_Witness ==
    /\ ret.op = "GetDecommitMsg"
    /\ sent # Nil
    /\ sent[1] = MaxVal
    /\ ret.out = <<Some(MaxVal), committer.r>>
    /\ committer.r \notin {Nil, Some(1)}
    /\ committer.Y # 1

(***************************************************************************)
(* The Receiver's commitment slot.                                         *)
(***************************************************************************)
\* Y^a * f(R) mod N, the commitment a Committer of the Receiver's Y computes
Opened(R, a) == computeCommitment(setup, [Y |-> receiver.Y], a, R).commitment

\* C15: single slot. SetCommitment(C) stores C, whatever C is and whatever was
\* stored; CheckDecommitment(R, a) is true exactly when Y^a * f(R) is the
\* commitment stored last, so that after SetCommitment(c1), SetCommitment(c2)
\* with c1 # c2 every opening of c1 is rejected and every opening of c2
\* accepted; CheckDecommitment changes nothing in the Receiver and gives the
\* same verdict when repeated.
C15_SingleSlot ==
    /\ [](/\ ret.op = "SetCommitment" => receiver.commitment = Some(ret.args[1])
          /\ (ret.op = "CheckDecommitment" /\ ~ret.err) =>
                 ret.out = <<Opened(ret.args[1], ret.args[2]) = Val(receiver.commitment)>>)
    /\ [][/\ ret'.op = "CheckDecommitment" =>
                /\ receiver' = receiver
                /\ ~ret'.err =>
                       ret'.out = <<CheckDecommitment(setup', receiver', ret'.args[1],
                                                      ret'.args[2])>>
          /\ (ret'.op = "SetCommitment" /\ receiver.commitment # Nil
                  /\ receiver'.commitment # receiver.commitment) =>
                \A R \in GroupElements(setup.N), a \in 0 .. MaxVal :
                    \A after \in {CheckDecommitment(setup', receiver', R, a)} :
                        /\ after => ~CheckDecommitment(setup, receiver, R, a)
                        /\ after <=> (Opened(R, a) = Val(receiver'.commitment))]_vars

\* the opening of the commitment sent is rejected by a Receiver that has since
\* stored another commitment
C15_Witness ==
    /\ ret.op = "CheckDecommitment"
    /\ sent # Nil
    /\ InRange(sent[1])
    /\ ret.args = HonestOpening
    /\ receiver.commitment \notin {Nil, Some(sent[2]), Some(0)}
    /\ ret.out = <<FALSE>>

(***************************************************************************)
(* The frame of GetCommitmentToMultiplication.                             *)
(***************************************************************************)
\* C16: GetCommitmentToMultiplication leaves the pending decommitment state as
\* it is: committedValue and r keep the values of the last successful
\* GetCommitMsg (or stay unset), and a GetDecommitMsg that follows returns that
\* earlier (a, r), which opens the commitment GetCommitMsg returned.
C16_MultiplicationKeepsPending ==
    /\ [][ret'.op = "GetCommitmentToMultiplication" =>
             /\ committer' = committer
             /\ GetDecommitMsg(committer') = GetDecommitMsg(committer)]_vars
    /\ [][(ret.op = "GetCommitmentToMultiplication" /\ ret'.op = "GetDecommitMsg") =>
             /\ ret'.out = GetDecommitMsg(committer)
             /\ sent = Nil => ret'.out = <<Nil, Nil>>
             /\ sent # Nil =>
                    /\ ret'.out[1] = Some(sent[1])
                    /\ computeCommitment(setup, committer, sent[1],
                                          Val(ret'.out[2])).commitment = sent[2]]_vars

\* a product committed with another value and another blinding factor than the
\* pending ones
C16_Witness ==
    /\ ret.op = "GetCommitmentToMultiplication"
    /\ sent # Nil
    /\ GetDecommitMsg(committer) = <<Some(sent[1]), committer.r>>
    /\ (ret.args[1] * ret.args[2]) % setup.Q # sent[1]
    /\ ret.out[2] # Val(committer.r)
    /\ ret.out[1] # sent[2]

(***************************************************************************)
(* The prover's first move and its responses.                              *)
(***************************************************************************)
\* C17: shared mask. GetProofRandomData returns t1 = commit(r1, r21) under
\* committer1's parameters and t2 = commit(r1, r22) under committer2's, with
\* the same r1, and the (r1, r21, r22) stored in the prover are the ones t1 and
\* t2 were formed from and the ones GetProofData adds to its products.
C17_SharedMask ==
    /\ ret.op = "GetProofRandomData" =>
          /\ ret.out = tmsg
          /\ Nil \notin {prover.r1, prover.r21, prover.r22}
    /\ tmsg # Nil =>
          /\ tmsg[1] = ComputeCommit(prover.committer1.p, Val(prover.r1), Val(prover.r21))
          /\ tmsg[2] = ComputeCommit(prover.committer2.p, Val(prover.r1), Val(prover.r22))
    /\ (ret.op = "GetProofData" /\ ~ret.err) =>
          LET e == ret.args[1]
          IN  /\ ret.out[1] - e * Value1 = Val(prover.r1)
              /\ ret.out[2] - e * Val(prover.committer1.r) = Val(prover.r21)
              /\ ret.out[3] - e * Val(prover.committer2.r) = Val(prover.r22)

\* a first move with a nonzero shared mask and different r21 and r22, answered
C17_Witness ==
    /\ ret.op = "GetProofData"
    /\ ~ret.err
    /\ ret.args[1] > 0
    /\ prover.r1 \notin {Nil, Some(0)}
    /\ prover.r21 # prover.r22
    /\ tmsg[1] # ComputeCommit(prover.committer1.p, 0, Val(prover.r21))
    /\ tmsg[2] # ComputeCommit(prover.committer1.p, Val(prover.r1), Val(prover.r22))

InitChallenge ==
    /\ InitEq
    /\ prover.committer1.committedValue = Some(prover.committer1.p.T - 1)
    /\ prover.committer2.committedValue = Some(prover.committer2.p.T - 1)

SpecChallenge == InitChallenge /\ [][NextEq]_vars

\* the two equalities of the proof for the response s, the challenge e and the
\* random commitments t1, t2
Accepts(s, e, t1, t2) ==
    LET rc1 == verifier.receiver1
        rc2 == verifier.receiver2
    IN  /\ Mul(rc1.p.N, t1, Exp(rc1.p.N, Val(rc1.Commitment), e))
              = ComputeCommit(rc1.p, s[1], s[2])
        /\ Mul(rc2.p.N, t2, Exp(rc2.p.N, Val(rc2.Commitment), e))
              = ComputeCommit(rc2.p, s[1], s[3])

\* C19: challenge handling. GetChallenge returns a value of
\* [0, 2^challengeSpaceSize) and stores it, SetChallenge stores the value it is
\* given, and the later of the two calls overwrites the earlier; the verifier's
\* challenge and random data change in no other call than these and
\* SetProofRandomData, and Verify judges the response against the challenge
\* and the random commitments stored last.
C19_ChallengeHandling ==
    /\ [](/\ ret.op = "GetChallenge" =>
                /\ ret.out[1] \in 0 .. (2 ^ verifier.challengeSpaceSize - 1)
                /\ verifier.challenge = Some(ret.out[1])
          /\ ret.op = "SetChallenge" => verifier.challenge = Some(ret.args[1])
          /\ ret.op = "SetProofRandomData" =>
                /\ verifier.proofRandomData1 = Some(ret.args[1])
                /\ verifier.proofRandomData2 = Some(ret.args[2])
          /\ Verdict =>
                ret.out = <<Accepts(ret.args, Val(verifier.challenge),
                                    Val(verifier.proofRandomData1),
                                    Val(verifier.proofRandomData2))>>)
    /\ [][/\ verifier'.challenge # verifier.challenge
                => ret'.op \in {"GetChallenge", "SetChallenge"}
          /\ ret'.op \in {"GetChallenge", "SetChallenge"} => chBy' = ret'.op
          /\ (verifier'.proofRandomData1 # verifier.proofRandomData1
                 \/ verifier'.proofRandomData2 # verifier.proofRandomData2)
                => ret'.op = "SetProofRandomData"
          /\ ret'.op = "Verify" => verifier' = verifier]_vars

\* a response to one challenge rejected by a verifier on which GetChallenge
\* has since installed another, with the random data of an earlier first move
C19_Witness ==
    /\ Verdict
    /\ chBy = "GetChallenge"
    /\ verifier.challenge # Some(smsg[1])
    /\ verifier.proofRandomData1 # Some(tmsg[1])
    /\ ret.out = <<FALSE>>

(***************************************************************************)
(* The intervals of the masks, for Committers of equal and of different    *)
(* sizes.                                                                  *)
(***************************************************************************)
\* a small and a large parameter set: N = 3 * 5 and N = 47 * 107, B the bit
\* length of N less 2
UnequalParams ==
    <<[N |-> 15, G |-> 4, H |-> 4, T |-> 3, B |-> 2, K |-> 1],
      [N |-> 5029, G |-> 4, H |-> 16, T |-> 3, B |-> 11, K |-> 1]>>

\* the parameters of committer1 and committer2
ParamPairs ==
    {<<DFParams[1], DFParams[2]>>, <<DFParams[2], DFParams[1]>>,
     <<UnequalParams[1], UnequalParams[2]>>}

\* the interval a Committer of parameters p draws its blinding factor from
BlindingBound(p) == 2 ^ (p.B + 2 * p.K)

InitMask ==
    /\ NoCommitment
    /\ \E pp \in ParamPairs :
          \E pair1 \in DFPairs(pp[1]), pair2 \in DFPairs(pp[2]) :
              /\ pair1.c.committedValue # Nil
              /\ pair2.c.committedValue # Nil
              /\ prover = NewEqualityProver(pair1.c, pair2.c, ChallengeSpaceSize)
              /\ verifier = NewEqualityVerifier(pair1.r, pair2.r, ChallengeSpaceSize)
    /\ tmsg = Nil
    /\ smsg = Nil
    /\ chBy = "none"
    /\ ret = [op |-> "New", args |-> <<>>, out |-> <<>>, err |-> FALSE]

NextMask ==
    \/ DoGetProofRandomData
    \/ DoGetProofData

SpecMask == InitMask /\ [][NextMask]_vars

\* C20 as claimed: each mask of GetProofRandomData is drawn from an interval at
\* least 2^challengeSpaceSize times the range of what it hides: r1 against the
\* values [0, T), r21 against committer1's blinding factors, and r22 against
\* committer2's blinding factors, also when committer2's parameters differ
\* from committer1's.
C20_MaskIntervals ==
    prover.r1 # Nil =>
        LET factor == 2 ^ prover.challengeSpaceSize
        IN  /\ Val(prover.r1) < R1Bound(prover)
            /\ Val(prover.r21) < R21Bound(prover)
            /\ Val(prover.r22) < R22Bound(prover)
            /\ R1Bound(prover) >= factor * prover.committer1.p.T
            /\ R21Bound(prover) >= factor * BlindingBound(prover.committer1.p)
            /\ R22Bound(prover) >= factor * BlindingBound(prover.committer2.p)

====
